---- MODULE Spec2Model ----
(***************************************************************************)
(* Workflow execution engine of rag2agents                                 *)
(*   backend/app/services/workflow_engine.py  (node executors, walker)     *)
(*   backend/app/services/workflow.py         (execute_workflow, cancel)   *)
(*                                                                         *)
(* Python values are tagged records: [t |-> "none"], [t |-> "str", v |-> s]*)
(* where s is a sequence of symbols, [t |-> "int", v |-> n], [t |->        *)
(* "bigint"] (an int beyond the range of a double), [t |-> "bool", ...],   *)
(* [t |-> "list", v |-> seq], [t |-> "dict", v |-> function, k |-> keys in *)
(* insertion order].  A dotted path is the sequence of its parts.          *)
(***************************************************************************)
EXTENDS Integers, Sequences, FiniteSets, TLC

\* ------------------------------------------------------------------------
\* Python values
\* ------------------------------------------------------------------------
None == [t |-> "none"]
Str(s) == [t |-> "str", v |-> s]
PyInt(n) == [t |-> "int", v |-> n]
BigInt == [t |-> "bigint"]
PyBool(b) == [t |-> "bool", v |-> b]
PyList(s) == [t |-> "list", v |-> s]
Dict(keys, f) == [t |-> "dict", k |-> keys, v |-> f]
EmptyDict == Dict(<<>>, <<>>)

Range(s) == {s[i] : i \in DOMAIN s}

\* dict[key] = val : a new key goes last, an existing key keeps its place
DictSet(d, key, val) ==
    Dict(IF key \in Range(d.k) THEN d.k ELSE Append(d.k, key),
         [x \in Range(d.k) \cup {key} |-> IF x = key THEN val ELSE d.v[x]])

HasKey(d, key) == d.t = "dict" /\ key \in Range(d.k)

\* dict.get(key, default)
DictGet(d, key, default) == IF key \in Range(d.k) THEN d.v[key] ELSE default

\* the symbols a text is made of
Digits == {"0", "1", "2", "3", "4", "5", "6", "7", "8", "9"}

DigitVal(c) ==
    CASE c = "0" -> 0 [] c = "1" -> 1 [] c = "2" -> 2 [] c = "3" -> 3
      [] c = "4" -> 4 [] c = "5" -> 5 [] c = "6" -> 6 [] c = "7" -> 7
      [] c = "8" -> 8 [] c = "9" -> 9

DigitSym(n) ==
    CASE n = 0 -> "0" [] n = 1 -> "1" [] n = 2 -> "2" [] n = 3 -> "3"
      [] n = 4 -> "4" [] n = 5 -> "5" [] n = 6 -> "6" [] n = 7 -> "7"
      [] n = 8 -> "8" [] n = 9 -> "9"

RECURSIVE NatToText(_)
NatToText(n) == IF n < 10 THEN <<DigitSym(n)>>
                ELSE Append(NatToText(n \div 10), DigitSym(n % 10))

RECURSIVE ReprItems(_)
\* str(x) : the text Python prints for a value
RECURSIVE PyStr(_)
PyStr(x) ==
    CASE x.t = "none" -> <<"N", "o", "n", "e">>
      [] x.t = "str" -> x.v
      [] x.t = "int" -> IF x.v < 0 THEN <<"-">> \o NatToText(-x.v) ELSE NatToText(x.v)
      [] x.t = "bigint" -> <<"1", "0", "...">>
      [] x.t = "bool" -> IF x.v THEN <<"T", "r", "u", "e">> ELSE <<"F", "a", "l", "s", "e">>
      [] x.t = "list" -> <<"[">> \o ReprItems(x.v) \o <<"]">>
      [] x.t = "dict" -> IF x.k = <<>> THEN <<"{", "}">> ELSE <<"{", "...", "}">>
ReprItems(s) ==
    IF s = <<>> THEN <<>>
    ELSE (IF Head(s).t = "str" THEN <<"'">> \o Head(s).v \o <<"'">> ELSE PyStr(Head(s)))
         \o (IF Len(s) > 1 THEN <<",", " ">> ELSE <<>>) \o ReprItems(Tail(s))

\* a in b for two texts
Contains(a, b) ==
    \E i \in 0..Len(b) : i + Len(a) <= Len(b) /\ SubSeq(b, i + 1, i + Len(a)) = a

\* bool(x)
Truthy(x) ==
    CASE x.t = "none" -> FALSE
      [] x.t = "str" -> x.v # <<>>
      [] x.t = "int" -> x.v # 0
      [] x.t = "bigint" -> TRUE
      [] x.t = "bool" -> x.v
      [] x.t = "list" -> x.v # <<>>
      [] x.t = "dict" -> x.k # <<>>

RECURSIVE Strip(_)
Strip(s) ==
    IF s = <<>> THEN s
    ELSE IF Head(s) = " " THEN Strip(Tail(s))
    ELSE IF s[Len(s)] = " " THEN Strip(SubSeq(s, 1, Len(s) - 1))
    ELSE s

RECURSIVE DigitsToNat(_)
DigitsToNat(s) ==
    IF s = <<>> THEN 0 ELSE 10 * DigitsToNat(SubSeq(s, 1, Len(s) - 1)) + DigitVal(s[Len(s)])

AllDigits(s) == s # <<>> /\ \A i \in DOMAIN s : s[i] \in Digits

\* float(x) : [ok |-> TRUE, nan |-> ..., n |-> ...] or the exception raised
FloatOk(n) == [ok |-> TRUE, nan |-> FALSE, n |-> n]
FloatNaN == [ok |-> TRUE, nan |-> TRUE, n |-> 0]
FloatRaise(e) == [ok |-> FALSE, exc |-> e]

ParseFloat(s) ==
    LET b == Strip(s)
    IN  IF AllDigits(b) THEN FloatOk(DigitsToNat(b))
        ELSE IF Len(b) > 1 /\ Head(b) = "-" /\ AllDigits(Tail(b))
             THEN FloatOk(-DigitsToNat(Tail(b)))
        ELSE IF b = <<"n", "a", "n">> THEN FloatNaN
        ELSE FloatRaise("ValueError")

PyFloat(x) ==
    CASE x.t = "none" -> FloatRaise("TypeError")
      [] x.t = "str" -> ParseFloat(x.v)
      [] x.t = "int" -> FloatOk(x.v)
      [] x.t = "bigint" -> FloatRaise("OverflowError")
      [] x.t = "bool" -> FloatOk(IF x.v THEN 1 ELSE 0)
      [] x.t = "list" -> FloatRaise("TypeError")
      [] x.t = "dict" -> FloatRaise("TypeError")

\* ------------------------------------------------------------------------
\* Results of a call: a value returned or an exception raised
\* ------------------------------------------------------------------------
Return(x) == [raised |-> FALSE, val |-> x]
Raise(e) == [raised |-> TRUE, exc |-> e]

\* _get_value_from_path(path, state)
RECURSIVE get_value_from_path(_, _)
get_value_from_path(parts, current) ==
    IF parts = <<>> THEN current
    ELSE IF current.t = "dict" /\ Head(parts) \in Range(current.k)
         THEN get_value_from_path(Tail(parts), current.v[Head(parts)])
         ELSE None

\* ------------------------------------------------------------------------
\* ConditionNodeExecutor
\* ------------------------------------------------------------------------
Operators == {"equals", "not_equals", "contains", "not_contains",
              "greater_than", "less_than", "is_empty", "is_not_empty", "other"}

\* float(value) > float(compare_value), or <, inside
\* try: ... except (ValueError, TypeError): return False
compare_floats(a, b, less) ==
    IF ~a.ok
    THEN (IF a.exc \in {"ValueError", "TypeError"} THEN Return(FALSE) ELSE Raise(a.exc))
    ELSE IF ~b.ok
    THEN (IF b.exc \in {"ValueError", "TypeError"} THEN Return(FALSE) ELSE Raise(b.exc))
    ELSE IF a.nan \/ b.nan THEN Return(FALSE)
    ELSE Return(IF less THEN a.n < b.n ELSE a.n > b.n)

Compare(value, compare_value, less) ==
    compare_floats(PyFloat(value), PyFloat(compare_value), less)

\* ConditionNodeExecutor._evaluate
evaluate(value, operator, compare_value) ==
    CASE operator = "equals" -> Return(PyStr(value) = PyStr(compare_value))
      [] operator = "not_equals" -> Return(PyStr(value) # PyStr(compare_value))
      [] operator = "contains" -> Return(Contains(PyStr(compare_value), PyStr(value)))
      [] operator = "not_contains" -> Return(~Contains(PyStr(compare_value), PyStr(value)))
      [] operator = "greater_than" -> Compare(value, compare_value, FALSE)
      [] operator = "less_than" -> Compare(value, compare_value, TRUE)
      [] operator = "is_empty" -> Return(~Truthy(value))
      [] operator = "is_not_empty" -> Return(Truthy(value))
      [] OTHER -> Return(FALSE)

\* ------------------------------------------------------------------------
\* Node executors.  execute(node_config, state, db) with
\* node_config = {"id": node_id, "config": config} and
\* state = {"inputs": ..., "node_outputs": ..., "loop_state": ...}.
\* ext is the reply of the external capability the executor calls.
\* ------------------------------------------------------------------------
MkState(inputs, node_outputs, loop_state) ==
    Dict(<<"inputs", "node_outputs", "loop_state">>,
         [inputs |-> inputs, node_outputs |-> node_outputs, loop_state |-> loop_state])

\* str.split(".") of a path text whose symbols are its parts
Split(text) == IF text = <<>> THEN <<"">> ELSE text

\* StartNodeExecutor.execute
StartNodeExecutor(config, state) ==
    Return(Dict(<<"output">>, [output |-> DictGet(state, "inputs", EmptyDict)]))

\* EndNodeExecutor.execute taking the first entry of node_outputs as fallback
end_output_first(output_from, node_outputs) ==
    IF Truthy(output_from) /\ output_from.t = "str" /\ Len(output_from.v) = 1
       /\ output_from.v[1] \in Range(node_outputs.k)
    THEN node_outputs.v[output_from.v[1]]
    ELSE IF node_outputs.k # <<>>
    THEN node_outputs.v[node_outputs.k[1]]
    ELSE None

\* the output EndNodeExecutor.execute picks from node_outputs
end_output(output_from, node_outputs) ==
    IF Truthy(output_from) /\ output_from.t = "str" /\ Len(output_from.v) = 1
       /\ output_from.v[1] \in Range(node_outputs.k)
    THEN node_outputs.v[output_from.v[1]]
    ELSE IF node_outputs.k # <<>>
    THEN node_outputs.v[node_outputs.k[Len(node_outputs.k)]]
    ELSE None

\* EndNodeExecutor.execute
EndNodeExecutor(config, state) ==
    Return(Dict(<<"output">>,
                [output |-> end_output(DictGet(config, "output_from", None),
                                       DictGet(state, "node_outputs", EmptyDict))]))

LLM_TEXT == Str(<<"generated">>)

\* LLMNodeExecutor.execute : llm_client.chat_completion replies or raises
LLMNodeExecutor(config, state, ext) ==
    IF ext.ok
    THEN Return(Dict(<<"output", "tokens_used">>,
                     [output |-> LLM_TEXT, tokens_used |-> PyInt(ext.tokens)]))
    ELSE Raise("llm error")

\* RAGNodeExecutor.execute : rag_service.search replies or raises
RAGNodeExecutor(config, state, ext) ==
    IF ext.ok
    THEN Return(Dict(<<"output", "sources", "chunk_count">>,
                     [output |-> Str(<<"passage1", "\n\n", "passage2">>),
                      sources |-> PyList(<<Str(<<"doc1">>), Str(<<"doc2">>)>>),
                      chunk_count |-> PyInt(2)]))
    ELSE Raise("search error")

\* AgentNodeExecutor.execute : AgentEngine.run replies or raises
AgentNodeExecutor(config, state, ext) ==
    IF ext.ok
    THEN Return(Dict(<<"output", "tool_calls", "tokens_used">>,
                     [output |-> Str(<<"agent response">>), tool_calls |-> PyList(<<>>),
                      tokens_used |-> PyInt(ext.tokens)]))
    ELSE Raise("agent error")

\* the dict ConditionNodeExecutor.execute returns for the value of _evaluate
condition_result(result) ==
    IF result.raised THEN result
    ELSE Return(Dict(<<"output", "branch">>,
                     [output |-> PyBool(result.val),
                      branch |-> Str(<<IF result.val THEN "true" ELSE "false">>)]))

\* ConditionNodeExecutor.execute
ConditionNodeExecutor(config, state) ==
    condition_result(
        evaluate(get_value_from_path(Split(DictGet(config, "variable", Str(<<>>)).v), state),
                 DictGet(config, "operator", Str(<<"equals">>)).v[1],
                 DictGet(config, "value", Str(<<>>))))

\* the three returns of LoopNodeExecutor.execute
loop_result(node_id, array, loop_state, current_index) ==
    IF array.t # "list"
    THEN Return(Dict(<<"output", "items", "count">>,
                     [output |-> PyList(<<>>), items |-> PyList(<<>>), count |-> PyInt(0)]))
    ELSE IF current_index.v >= Len(array.v)
    THEN Return(Dict(<<"output", "done", "count">>,
                     [output |-> DictGet(loop_state, node_id \o "_results", PyList(<<>>)),
                      done |-> PyBool(TRUE), count |-> PyInt(Len(array.v))]))
    ELSE Return(Dict(<<"output", "index", "done", "count">>,
                     [output |-> array.v[current_index.v + 1], index |-> current_index,
                      done |-> PyBool(FALSE), count |-> PyInt(Len(array.v))]))

\* LoopNodeExecutor.execute
LoopNodeExecutor(node_id, config, state) ==
    loop_result(node_id,
                get_value_from_path(Split(DictGet(config, "array_from", Str(<<>>)).v), state),
                DictGet(state, "loop_state", EmptyDict),
                DictGet(DictGet(state, "loop_state", EmptyDict), node_id \o "_index", PyInt(0)))

\* HTTPNodeExecutor.execute : the request returns a response, or raises inside
\* the executor's own try/except
HTTPNodeExecutor(config, state, ext) ==
    IF ext.ok
    THEN Return(Dict(<<"output", "status_code", "headers">>,
                     [output |-> Str(<<"body">>), status_code |-> PyInt(200),
                      headers |-> EmptyDict]))
    ELSE Return(Dict(<<"output", "error", "status_code">>,
                     [output |-> None, error |-> Str(<<"http error">>),
                      status_code |-> PyInt(0)]))

\* CustomFunctionNodeExecutor.execute : exec(code) sets result, or raises inside
\* the executor's own try/except
CustomFunctionNodeExecutor(config, state, ext) ==
    IF ext.ok
    THEN Return(Dict(<<"output">>, [output |-> Str(<<"result">>)]))
    ELSE Return(Dict(<<"output", "error">>, [output |-> None, error |-> Str(<<"code error">>)]))

\* NODE_EXECUTORS : the node types that have an executor
NODE_EXECUTORS == {"start", "end", "llm", "rag", "agent", "condition", "loop",
                   "http", "custom_function"}

\* schemas NodeType
NodeType == {"start", "end", "llm", "agent", "rag", "tool", "condition", "loop",
             "custom_function", "http"}

\* executor_class().execute(...)
Execute(node_type, node_id, config, state, ext) ==
    CASE node_type = "start" -> StartNodeExecutor(config, state)
      [] node_type = "end" -> EndNodeExecutor(config, state)
      [] node_type = "llm" -> LLMNodeExecutor(config, state, ext)
      [] node_type = "rag" -> RAGNodeExecutor(config, state, ext)
      [] node_type = "agent" -> AgentNodeExecutor(config, state, ext)
      [] node_type = "condition" -> ConditionNodeExecutor(config, state)
      [] node_type = "loop" -> LoopNodeExecutor(node_id, config, state)
      [] node_type = "http" -> HTTPNodeExecutor(config, state, ext)
      [] node_type = "custom_function" -> CustomFunctionNodeExecutor(config, state, ext)

\* ------------------------------------------------------------------------
\* WorkflowEngine.  A node is [id, type, config]; an edge is
\* [source, target, label, sourceHandle] with label and sourceHandle None or
\* a text, as WorkflowEdge.model_dump() stores them.  A node found in the
\* nodes list is its index; 0 is None.
\* ------------------------------------------------------------------------

\* the first node of the list with this id, None (0) if there is none
NodeById(nodes, id) ==
    IF \E i \in DOMAIN nodes : nodes[i].id = id
    THEN CHOOSE i \in DOMAIN nodes : nodes[i].id = id /\ \A j \in 1..(i - 1) : nodes[j].id # id
    ELSE 0

\* WorkflowEngine._build_adjacency : source -> its targets in edge-list order
build_adjacency(edges) ==
    [src \in {edges[i].source : i \in DOMAIN edges} |->
        LET out == SelectSeq(edges, LAMBDA e : e.source = src)
        IN  [i \in DOMAIN out |-> out[i].target]]

\* _find_start_node without the fallback to the first node
find_start_node_strict(nodes) ==
    IF \E i \in DOMAIN nodes : nodes[i].type = "start"
    THEN CHOOSE i \in DOMAIN nodes :
            nodes[i].type = "start" /\ \A j \in 1..(i - 1) : nodes[j].type # "start"
    ELSE 0

\* _find_start_node always taking the first node
find_start_node_first(nodes) == IF nodes = <<>> THEN 0 ELSE 1

\* WorkflowEngine._find_start_node
find_start_node(nodes) ==
    IF \E i \in DOMAIN nodes : nodes[i].type = "start"
    THEN CHOOSE i \in DOMAIN nodes :
            nodes[i].type = "start" /\ \A j \in 1..(i - 1) : nodes[j].type # "start"
    ELSE IF nodes # <<>> THEN 1 ELSE 0

\* _get_next_node taking the last target instead of the first
get_next_node_last(current_id, adjacency, nodes) ==
    LET targets == IF current_id \in DOMAIN adjacency THEN adjacency[current_id] ELSE <<>>
    IN  IF targets = <<>> THEN 0 ELSE NodeById(nodes, targets[Len(targets)])

\* WorkflowEngine._get_next_node
get_next_node(current_id, adjacency, nodes) ==
    LET targets == IF current_id \in DOMAIN adjacency THEN adjacency[current_id] ELSE <<>>
    IN  IF targets = <<>> THEN 0 ELSE NodeById(nodes, targets[1])

\* str.lower() on the symbols labels are written with
LowerSym(c) ==
    CASE c = "TRUE" -> "true" [] c = "True" -> "true"
      [] c = "FALSE" -> "false" [] c = "False" -> "false"
      [] OTHER -> c

Lower(text) == [i \in DOMAIN text |-> LowerSym(text[i])]

\* what the loop body of _get_next_node_for_branch does with one edge: it
\* goes on to the next edge (Return(0)), returns a node, or None.lower() raises
branch_edge(edge, source_id, branch, nodes) ==
    IF edge.source # source_id THEN Return(0)
    ELSE IF edge.label.t # "str" \/ edge.sourceHandle.t # "str" THEN Raise("AttributeError")
    ELSE LET edge_label == Lower(edge.label.v)
             source_handle == Lower(edge.sourceHandle.v)
         IN  IF branch = Str(<<"true">>)
                /\ (edge_label = <<"true">> \/ source_handle = <<"true">> \/ edge_label = <<>>)
             THEN Return(NodeById(nodes, edge.target))
             ELSE IF branch = Str(<<"false">>)
                     /\ (edge_label = <<"false">> \/ source_handle = <<"false">>)
             THEN Return(NodeById(nodes, edge.target))
             ELSE Return(0)

\* WorkflowEngine._get_next_node_for_branch : the node found, None (0), or the
\* AttributeError raised
RECURSIVE get_next_node_for_branch(_, _, _, _)
get_next_node_for_branch(source_id, branch, edges, nodes) ==
    IF edges = <<>> THEN Return(0)
    ELSE LET here == branch_edge(Head(edges), source_id, branch, nodes)
         IN  IF ~here.raised /\ here.val = 0
             THEN get_next_node_for_branch(source_id, branch, Tail(edges), nodes)
             ELSE here

\* the external capabilities a node type calls, and what they may answer
TokenValues == {0, 7}

ExtReplies(node_type) ==
    CASE node_type \in {"llm", "agent"} ->
            {[ok |-> TRUE, tokens |-> n] : n \in TokenValues} \cup {[ok |-> FALSE, tokens |-> 0]}
      [] node_type \in {"rag", "http", "custom_function"} ->
            {[ok |-> TRUE, tokens |-> 0], [ok |-> FALSE, tokens |-> 0]}
      [] OTHER -> {[ok |-> TRUE, tokens |-> 0]}

\* _execute_node turning an exception into the error result without logging it
log_execution_unlogged(node, now, r) ==
    IF ~r.raised
    THEN [result |-> r.val,
          log |-> <<[node_id |-> node.id, node_type |-> node.type,
                     status |-> "completed", started_at |-> now,
                     completed_at |-> now + 1, output |-> r.val,
                     tokens_used |-> DictGet(r.val, "tokens_used", PyInt(0)).v]>>,
          tokens |-> DictGet(r.val, "tokens_used", PyInt(0)).v, ticks |-> 2]
    ELSE [result |-> Dict(<<"output", "error">>, [output |-> None, error |-> Str(<<r.exc>>)]),
          log |-> <<>>, tokens |-> 0, ticks |-> 2]

\* _execute_node logging tokens_used without adding it to total_tokens
log_execution_uncounted(node, now, r) ==
    IF ~r.raised
    THEN [result |-> r.val,
          log |-> <<[node_id |-> node.id, node_type |-> node.type,
                     status |-> "completed", started_at |-> now,
                     completed_at |-> now + 1, output |-> r.val,
                     tokens_used |-> DictGet(r.val, "tokens_used", PyInt(0)).v]>>,
          tokens |-> 0, ticks |-> 2]
    ELSE [result |-> Dict(<<"output", "error">>, [output |-> None, error |-> Str(<<r.exc>>)]),
          log |-> <<[node_id |-> node.id, node_type |-> node.type,
                     status |-> "failed", started_at |-> now,
                     completed_at |-> now + 1, error |-> r.exc]>>,
          tokens |-> 0, ticks |-> 2]

\* the try/except of WorkflowEngine._execute_node around executor.execute:
\* the result returned, the log entry appended and the tokens added;
\* started_at is read at now, completed_at at now + 1
log_execution(node, now, r) ==
    IF ~r.raised
    THEN [result |-> r.val,
          log |-> <<[node_id |-> node.id, node_type |-> node.type,
                     status |-> "completed", started_at |-> now,
                     completed_at |-> now + 1, output |-> r.val,
                     tokens_used |-> DictGet(r.val, "tokens_used", PyInt(0)).v]>>,
          tokens |-> DictGet(r.val, "tokens_used", PyInt(0)).v, ticks |-> 2]
    ELSE [result |-> Dict(<<"output", "error">>, [output |-> None, error |-> Str(<<r.exc>>)]),
          log |-> <<[node_id |-> node.id, node_type |-> node.type,
                     status |-> "failed", started_at |-> now,
                     completed_at |-> now + 1, error |-> r.exc]>>,
          tokens |-> 0, ticks |-> 2]

\* WorkflowEngine._execute_node
execute_node(node, state, ext, now) ==
    IF node.type \notin NODE_EXECUTORS
    THEN [result |-> Dict(<<"output", "error">>,
                          [output |-> None, error |-> Str(<<"Unknown node type">>)]),
          log |-> <<>>, tokens |-> 0, ticks |-> 0]
    ELSE log_execution(node, now, Execute(node.type, node.id, node.config, state, ext))

\* ------------------------------------------------------------------------
\* Bounds and the inputs the operations are called with
\* ------------------------------------------------------------------------
MaxNodes == 2
MaxEdges == 1
MaxSteps == 6

Users == {"u1", "u2"}
Owner == "u1"
NodeIds == <<"n1", "n2", "n3", "n4">>
DanglingId == "nX"

Node(i, type, config) == [id |-> NodeIds[i], type |-> type, config |-> config]
Edge(source, target, label, sourceHandle) ==
    [source |-> source, target |-> target, label |-> label, sourceHandle |-> sourceHandle]
\* an edge saved without label and sourceHandle
PlainEdge(source, target) == Edge(source, target, None, None)
Labelled(source, target, tag) == Edge(source, target, Str(<<tag>>), Str(<<tag>>))

Cfg1(k, x) == Dict(<<k>>, [y \in {k} |-> x])
Cfg3(k1, x1, k2, x2, k3, x3) ==
    Dict(<<k1, k2, k3>>, [y \in {k1, k2, k3} |-> IF y = k1 THEN x1 ELSE IF y = k2 THEN x2 ELSE x3])

Graph(nodes, edges) == [nodes |-> nodes, edges |-> edges]

\* start -> http -> end
HttpGraph ==
    Graph(<<Node(1, "start", EmptyDict), Node(2, "http", EmptyDict), Node(3, "end", EmptyDict)>>,
          <<PlainEdge("n1", "n2"), PlainEdge("n2", "n3")>>)

\* start -> rag -> llm -> end
RagLlmGraph ==
    Graph(<<Node(1, "start", EmptyDict), Node(2, "rag", EmptyDict),
            Node(3, "llm", EmptyDict), Node(4, "end", EmptyDict)>>,
          <<PlainEdge("n1", "n2"), PlainEdge("n2", "n3"), PlainEdge("n3", "n4")>>)

\* start -> llm -> end, the end node naming the llm node in output_from
LlmGraph ==
    Graph(<<Node(1, "start", EmptyDict), Node(2, "llm", EmptyDict),
            Node(3, "end", Cfg1("output_from", Str(<<"n2">>)))>>,
          <<PlainEdge("n1", "n2"), PlainEdge("n2", "n3")>>)

\* start -> condition(inputs.x > 5) -true-> llm -> end, -false-> end
ConditionGraph ==
    Graph(<<Node(1, "start", EmptyDict),
            Node(2, "condition", Cfg3("variable", Str(<<"inputs", "x">>),
                                      "operator", Str(<<"greater_than">>),
                                      "value", Str(<<"5">>))),
            Node(3, "llm", EmptyDict), Node(4, "end", EmptyDict)>>,
          <<Labelled("n2", "n4", "false"), Labelled("n2", "n3", "true"),
            PlainEdge("n1", "n2"), PlainEdge("n3", "n4")>>)

\* start -> loop(inputs.items) -> llm -> loop
LoopGraph ==
    Graph(<<Node(1, "start", EmptyDict),
            Node(2, "loop", Cfg1("array_from", Str(<<"inputs", "items">>))),
            Node(3, "llm", EmptyDict)>>,
          <<PlainEdge("n1", "n2"), PlainEdge("n2", "n3"), PlainEdge("n3", "n2")>>)

\* start -> loop(inputs.items) -> loop
SelfLoopGraph ==
    Graph(<<Node(1, "start", EmptyDict),
            Node(2, "loop", Cfg1("array_from", Str(<<"inputs", "items">>)))>>,
          <<PlainEdge("n1", "n2"), PlainEdge("n2", "n2")>>)

\* start -> condition -> end, the edges saved without label and sourceHandle
PlainConditionGraph ==
    Graph(<<Node(1, "start", EmptyDict), Node(2, "condition", EmptyDict),
            Node(3, "end", EmptyDict)>>,
          <<PlainEdge("n1", "n2"), PlainEdge("n2", "n3")>>)

\* start -> llm -> http -> llm : a cycle without a loop node
CycleGraph ==
    Graph(<<Node(1, "start", EmptyDict), Node(2, "llm", EmptyDict), Node(3, "http", EmptyDict)>>,
          <<PlainEdge("n1", "n2"), PlainEdge("n2", "n3"), PlainEdge("n3", "n2")>>)

\* start -> llm -> end, the end node naming the start node in output_from
OutputFromGraph ==
    Graph(<<Node(1, "start", EmptyDict), Node(2, "llm", EmptyDict),
            Node(3, "end", Cfg1("output_from", Str(<<"n1">>)))>>,
          <<PlainEdge("n1", "n2"), PlainEdge("n2", "n3")>>)

\* start with two outgoing edges, to llm first and to http second, both
\* leading to end
ForkGraph ==
    Graph(<<Node(1, "start", EmptyDict), Node(2, "llm", EmptyDict),
            Node(3, "http", EmptyDict), Node(4, "end", EmptyDict)>>,
          <<PlainEdge("n1", "n2"), PlainEdge("n1", "n3"), PlainEdge("n2", "n4"),
            PlainEdge("n3", "n4")>>)

NamedGraphs == {HttpGraph, RagLlmGraph, LlmGraph, ConditionGraph, PlainConditionGraph,
                LoopGraph, SelfLoopGraph, CycleGraph, OutputFromGraph, ForkGraph}

\* every graph of at most MaxNodes nodes and MaxEdges plain edges
GenTypes == {"start", "end", "llm", "condition", "loop", "tool"}

GenNodes(n) == {[i \in 1..n |-> Node(i, f[i], EmptyDict)] : f \in [1..n -> GenTypes]}

GenEdge(n) == {PlainEdge(NodeIds[i], t) : i \in 1..n, t \in {NodeIds[j] : j \in 1..n} \cup {DanglingId}}

GenEdges(n) == UNION {[1..m -> GenEdge(n)] : m \in 0..MaxEdges}

GenGraphs == UNION {{Graph(ns, es) : ns \in GenNodes(n), es \in GenEdges(n)} : n \in 0..MaxNodes}

Graphs == NamedGraphs \cup GenGraphs

\* the inputs of a run
FullInputs ==
    Dict(<<"query", "x", "items">>,
         [query |-> Str(<<"What is RAG?">>), x |-> Str(<<"7">>),
          items |-> PyList(<<Str(<<"a">>), Str(<<"b">>), Str(<<"c">>)>>)])

InputChoices == {FullInputs, EmptyDict}

\* ------------------------------------------------------------------------
\* State
\* ------------------------------------------------------------------------
VARIABLES
    workflows,    \* the workflows table: id -> [user_id, nodes, edges]
    executions,   \* the workflow_executions table: id -> WorkflowExecution
    pc,           \* where the execute_workflow call in flight stands
    run,          \* that call's WorkflowEngine: state, logs, total_tokens, locals
    ret,          \* what the last service call returned or raised
    clock,        \* datetime.now()
    statusHist,   \* per execution, every value its status was assigned
    pf            \* the executor invocation under test

vars == <<workflows, executions, pc, run, ret, clock, statusHist, pf>>

NoTime == 0
IOTypes == {"llm", "rag", "agent", "http"}
Terminal == {"completed", "failed", "cancelled"}

NoRun ==
    [eid |-> 0, workflow_id |-> 0, user_id |-> "", inputs |-> EmptyDict, nodes |-> <<>>, edges |-> <<>>, adjacency |-> <<>>,
     state |-> MkState(EmptyDict, EmptyDict, EmptyDict), logs |-> <<>>, total_tokens |-> 0,
     current |-> 0, visited |-> {}, steps |-> 0, executed |-> <<>>, exc |-> ""]

NoCall == [op |-> "none", args |-> <<>>, raised |-> FALSE, val |-> 0]
NoPf == [fn |-> "none"]

Init ==
    /\ workflows = <<>>
    /\ executions = <<>>
    /\ pc = "idle"
    /\ run = NoRun
    /\ ret = NoCall
    /\ clock = 1
    /\ statusHist = <<>>
    /\ pf = NoPf

\* ------------------------------------------------------------------------
\* workflow.py
\* ------------------------------------------------------------------------

\* create_workflow : data carries the graph g, a name, and the defaults of
\* WorkflowCreate for the rest (no description, viewport or config, no template)
create_workflow(user_id, g) ==
    /\ pc = "idle"
    /\ workflows' = Append(workflows,
           [user_id |-> user_id, name |-> Str(<<"RAG Chat Flow">>), description |-> None,
            nodes |-> g.nodes, edges |-> g.edges, viewport |-> EmptyDict,
            status |-> Str(<<"draft">>), is_template |-> PyBool(FALSE), config |-> EmptyDict])
    /\ ret' = [op |-> "create_workflow", args |-> <<user_id>>, raised |-> FALSE,
                val |-> Len(workflows) + 1]
    /\ UNCHANGED <<executions, pc, run, clock, statusHist, pf>>

\* get_workflow selecting by id alone
get_workflow_any_user(workflow_id, user_id) ==
    IF workflow_id \in DOMAIN workflows /\ workflows[workflow_id].user_id \in Users
    THEN workflow_id ELSE 0

\* get_workflow : the id of the workflow, 0 for None
get_workflow(workflow_id, user_id) ==
    IF workflow_id \in DOMAIN workflows /\ workflows[workflow_id].user_id = user_id
    THEN workflow_id ELSE 0

\* Viewport.model_dump()
viewport_dump(viewport) ==
    Dict(<<"x", "y", "zoom">>,
         [x |-> PyInt(viewport.x), y |-> PyInt(viewport.y), zoom |-> PyInt(viewport.zoom)])

\* update_workflow assigning a field only when the given value is truthy
set_if_truthy(given, new, old) ==
    IF given.t \in {"enum", "viewport"} THEN new
    ELSE IF Truthy(given) THEN new ELSE old

\* if data.field is not None: workflow.field = new
set_if_given(given, new, old) == IF given.t # "none" THEN new ELSE old

\* the workflow after the assignments of update_workflow
updated_workflow(workflow, data) ==
    [workflow EXCEPT
        !.name = set_if_given(data.name, data.name, @),
        !.description = set_if_given(data.description, data.description, @),
        !.nodes = set_if_given(data.nodes, data.nodes.v, @),
        !.edges = set_if_given(data.edges, data.edges.v, @),
        !.viewport = set_if_given(data.viewport, viewport_dump(data.viewport), @),
        !.status = set_if_given(data.status, Str(<<data.status.value>>), @),
        !.is_template = set_if_given(data.is_template, data.is_template, @),
        !.config = set_if_given(data.config, data.config, @)]

\* update_workflow : returns the workflow (its id), None (0) when
\* get_workflow finds none
update_workflow(workflow_id, user_id, data) ==
    /\ pc = "idle"
    /\ ret' = [op |-> "update_workflow", args |-> <<workflow_id, user_id, data>>,
                raised |-> FALSE, val |-> get_workflow(workflow_id, user_id)]
    /\ IF get_workflow(workflow_id, user_id) = 0
       THEN UNCHANGED workflows
       ELSE workflows' = [workflows EXCEPT ![workflow_id] = updated_workflow(@, data)]
    /\ UNCHANGED <<executions, pc, run, clock, statusHist, pf>>

\* the user_id of a row that db.delete removed: no user has it, so no select
\* finds the row again
NoUser == ""

\* delete_workflow : True when the workflow was found and deleted, the
\* executions of the workflow going with it (cascade of Workflow.executions)
delete_workflow(workflow_id, user_id) ==
    /\ pc = "idle"
    /\ ret' = [op |-> "delete_workflow", args |-> <<workflow_id, user_id>>, raised |-> FALSE,
                val |-> get_workflow(workflow_id, user_id) # 0]
    /\ IF get_workflow(workflow_id, user_id) = 0
       THEN UNCHANGED <<workflows, executions>>
       ELSE /\ workflows' = [workflows EXCEPT ![workflow_id].user_id = NoUser]
            /\ executions' = [e \in DOMAIN executions |->
                                 IF executions[e].workflow_id = workflow_id
                                 THEN [executions[e] EXCEPT !.user_id = NoUser]
                                 ELSE executions[e]]
    /\ UNCHANGED <<pc, run, clock, statusHist, pf>>

\* duplicate_workflow : the copy (its id), None (0) when get_workflow finds
\* no original
duplicate_workflow(workflow_id, user_id) ==
    /\ pc = "idle"
    /\ IF get_workflow(workflow_id, user_id) = 0
       THEN /\ ret' = [op |-> "duplicate_workflow", args |-> <<workflow_id, user_id>>,
                        raised |-> FALSE, val |-> 0]
            /\ UNCHANGED workflows
       ELSE /\ workflows' = Append(workflows,
                   [user_id |-> user_id,
                    name |-> Str(workflows[workflow_id].name.v \o <<" (Copy)">>),
                    description |-> workflows[workflow_id].description,
                    nodes |-> workflows[workflow_id].nodes,
                    edges |-> workflows[workflow_id].edges,
                    viewport |-> workflows[workflow_id].viewport,
                    status |-> Str(<<"draft">>), is_template |-> PyBool(FALSE),
                    config |-> workflows[workflow_id].config])
            /\ ret' = [op |-> "duplicate_workflow", args |-> <<workflow_id, user_id>>,
                        raised |-> FALSE, val |-> Len(workflows) + 1]
    /\ UNCHANGED <<executions, pc, run, clock, statusHist, pf>>

\* get_execution : the id of the execution, 0 for None
get_execution(execution_id, user_id) ==
    IF execution_id \in DOMAIN executions /\ executions[execution_id].user_id = user_id
    THEN execution_id ELSE 0

\* execute_workflow creating the record before it looks the workflow up
execute_workflow_start_record_first(workflow_id, user_id, inputs) ==
    /\ pc = "idle"
    /\ executions = <<>>
    /\ executions' = Append(executions,
           [workflow_id |-> workflow_id, user_id |-> user_id, status |-> "pending",
            inputs |-> inputs, outputs |-> EmptyDict, node_states |-> EmptyDict,
            logs |-> <<>>, current_node_id |-> None, error_message |-> None,
            started_at |-> clock, completed_at |-> NoTime, total_tokens |-> 0])
    /\ statusHist' = Append(statusHist, <<"pending">>)
    /\ clock' = clock + 1
    /\ IF get_workflow(workflow_id, user_id) = 0
       THEN /\ ret' = [op |-> "execute_workflow", args |-> <<workflow_id, user_id>>,
                        raised |-> TRUE, val |-> 0]
            /\ UNCHANGED <<workflows, pc, run, pf>>
       ELSE /\ run' = [NoRun EXCEPT !.eid = Len(executions) + 1, !.inputs = inputs,
                                    !.workflow_id = workflow_id, !.user_id = user_id,
                                    !.nodes = workflows[workflow_id].nodes,
                                    !.edges = workflows[workflow_id].edges]
            /\ pc' = "created"
            /\ UNCHANGED <<workflows, ret, pf>>

\* execute_workflow up to the first flush: the workflow is looked up and the
\* record is created pending
execute_workflow_start(workflow_id, user_id, inputs) ==
    /\ pc = "idle"
    /\ IF get_workflow(workflow_id, user_id) = 0
       THEN /\ ret' = [op |-> "execute_workflow", args |-> <<workflow_id, user_id>>,
                        raised |-> TRUE, val |-> 0]
            /\ UNCHANGED <<workflows, executions, pc, run, clock, statusHist, pf>>
       ELSE /\ executions = <<>>
            /\ executions' = Append(executions,
                   [workflow_id |-> workflow_id, user_id |-> user_id, status |-> "pending",
                    inputs |-> inputs, outputs |-> EmptyDict, node_states |-> EmptyDict,
                    logs |-> <<>>, current_node_id |-> None, error_message |-> None,
                    started_at |-> clock, completed_at |-> NoTime, total_tokens |-> 0])
            /\ statusHist' = Append(statusHist, <<"pending">>)
            /\ clock' = clock + 1
            /\ run' = [NoRun EXCEPT !.eid = Len(executions) + 1, !.inputs = inputs,
                                    !.workflow_id = workflow_id, !.user_id = user_id,
                                    !.nodes = workflows[workflow_id].nodes,
                                    !.edges = workflows[workflow_id].edges]
            /\ pc' = "created"
            /\ UNCHANGED <<workflows, ret, pf>>

SetStatus(eid, status) ==
    /\ statusHist' = [statusHist EXCEPT ![eid] = Append(@, status)]

\* execute_workflow going on without marking the record running
execute_workflow_running_skipped ==
    /\ pc = "created"
    /\ pc' = "engine"
    /\ UNCHANGED <<workflows, executions, run, ret, clock, statusHist, pf>>

\* execution.status = running; await db.flush()
execute_workflow_running ==
    /\ pc = "created"
    /\ executions' = [executions EXCEPT ![run.eid].status = "running"]
    /\ SetStatus(run.eid, "running")
    /\ pc' = "engine"
    /\ UNCHANGED <<workflows, run, ret, clock, pf>>

\* WorkflowEngine.execute up to the while loop
engine_execute_begin ==
    /\ pc = "engine"
    /\ LET st == DictSet(run.state, "inputs", run.inputs)
       IN  IF run.nodes = <<>>
           THEN /\ run' = [run EXCEPT !.state = st]
                /\ pc' = "returned_empty"
           ELSE IF find_start_node(run.nodes) = 0
           THEN /\ run' = [run EXCEPT !.state = st, !.exc = "No start node found in workflow"]
                /\ pc' = "raised"
           ELSE /\ run' = [run EXCEPT !.state = st,
                                      !.adjacency = build_adjacency(run.edges),
                                      !.current = find_start_node(run.nodes)]
                /\ pc' = "walk"
    /\ UNCHANGED <<workflows, executions, ret, clock, statusHist, pf>>

\* the choice of the next node without the break after an end node
next_node_past_end(node, result, edges, adjacency, nodes) ==
    IF node.type = "condition"
    THEN get_next_node_for_branch(node.id, DictGet(result, "branch", Str(<<"true">>)),
                                  edges, nodes)
    ELSE Return(get_next_node(node.id, adjacency, nodes))

\* the node WorkflowEngine.execute goes to after node returned result
next_node(node, result, edges, adjacency, nodes) ==
    IF node.type = "end" THEN Return(0)
    ELSE IF node.type = "condition"
    THEN get_next_node_for_branch(node.id, DictGet(result, "branch", Str(<<"true">>)),
                                  edges, nodes)
    ELSE Return(get_next_node(node.id, adjacency, nodes))

\* the engine after node was executed (ex) and the next node chosen (next)
engine_after(node, ex, next) ==
    [run EXCEPT !.visited = @ \cup {node.id},
                !.state = DictSet(@, "node_outputs",
                                  DictSet(run.state.v["node_outputs"], node.id, ex.result)),
                !.logs = @ \o ex.log,
                !.total_tokens = @ + ex.tokens,
                !.steps = @ + 1,
                !.executed = Append(@, node.id),
                !.exc = IF next.raised THEN next.exc ELSE @,
                !.current = IF next.raised THEN @ ELSE next.val]

walk_on(node, ex, next) ==
    /\ clock' = clock + ex.ticks
    /\ run' = engine_after(node, ex, next)
    /\ pc' = IF next.raised THEN "raised" ELSE IF next.val = 0 THEN "returned" ELSE "walk"

execute_and_walk(node, ex) ==
    walk_on(node, ex, next_node(node, ex.result, run.edges, run.adjacency, run.nodes))

\* the while loop without its visited check
engine_execute_step_unguarded(ext) ==
    /\ pc = "walk"
    /\ run.steps < MaxSteps
    /\ execute_and_walk(run.nodes[run.current],
                        execute_node(run.nodes[run.current], run.state, ext, clock))
    /\ UNCHANGED <<workflows, executions, ret, statusHist, pf>>

\* one iteration of the while loop of WorkflowEngine.execute
engine_execute_step(ext) ==
    /\ pc = "walk"
    /\ run.steps < MaxSteps
    /\ IF run.nodes[run.current].id \in run.visited /\ run.nodes[run.current].type # "loop"
       THEN /\ pc' = "returned"
            /\ UNCHANGED <<run, clock>>
       ELSE execute_and_walk(run.nodes[run.current],
                             execute_node(run.nodes[run.current], run.state, ext, clock))
    /\ UNCHANGED <<workflows, executions, ret, statusHist, pf>>

\* the log entries of the nodes whose executor raised
FailedLogs(logs) == {i \in DOMAIN logs : logs[i].status = "failed"}

\* what WorkflowEngine.execute returns
engine_result ==
    IF pc = "returned_empty"
    THEN [outputs |-> EmptyDict, node_states |-> EmptyDict, logs |-> <<>>, total_tokens |-> 0]
    ELSE [outputs |-> run.state.v["node_outputs"], node_states |-> run.state.v["node_outputs"],
          logs |-> run.logs, total_tokens |-> run.total_tokens]

\* execute_workflow deriving the final status from the node logs
execute_workflow_completed_by_logs ==
    /\ pc \in {"returned", "returned_empty"}
    /\ executions' = [executions EXCEPT ![run.eid] =
            [@ EXCEPT !.status = IF FailedLogs(engine_result.logs) = {} THEN "completed"
                                 ELSE "failed",
                      !.outputs = engine_result.outputs,
                      !.node_states = engine_result.node_states, !.logs = engine_result.logs,
                      !.total_tokens = engine_result.total_tokens, !.completed_at = clock]]
    /\ SetStatus(run.eid, IF FailedLogs(engine_result.logs) = {} THEN "completed" ELSE "failed")
    /\ clock' = clock + 1
    /\ ret' = [op |-> "execute_workflow", args |-> <<run.workflow_id, run.user_id>>,
                raised |-> FALSE, val |-> run.eid]
    /\ pc' = "idle"
    /\ UNCHANGED <<workflows, run, pf>>

\* execute_workflow after engine.execute returned
execute_workflow_completed ==
    /\ pc \in {"returned", "returned_empty"}
    /\ executions' = [executions EXCEPT ![run.eid] =
            [@ EXCEPT !.status = "completed", !.outputs = engine_result.outputs,
                      !.node_states = engine_result.node_states, !.logs = engine_result.logs,
                      !.total_tokens = engine_result.total_tokens, !.completed_at = clock]]
    /\ SetStatus(run.eid, "completed")
    /\ clock' = clock + 1
    /\ ret' = [op |-> "execute_workflow", args |-> <<run.workflow_id, run.user_id>>,
                raised |-> FALSE, val |-> run.eid]
    /\ pc' = "idle"
    /\ UNCHANGED <<workflows, run, pf>>

\* execute_workflow after engine.execute raised
execute_workflow_failed ==
    /\ pc = "raised"
    /\ executions' = [executions EXCEPT ![run.eid] =
            [@ EXCEPT !.status = "failed", !.error_message = Str(<<run.exc>>),
                      !.completed_at = clock]]
    /\ SetStatus(run.eid, "failed")
    /\ clock' = clock + 1
    /\ ret' = [op |-> "execute_workflow", args |-> <<run.workflow_id, run.user_id>>,
                raised |-> FALSE, val |-> run.eid]
    /\ pc' = "idle"
    /\ UNCHANGED <<workflows, run, pf>>

\* the execute_workflow call is suspended in an await, or there is none
Suspended ==
    \/ pc \in {"idle", "created", "engine"}
    \/ /\ pc = "walk"
       /\ run.nodes[run.current].type \in IOTypes
       /\ run.nodes[run.current].id \notin run.visited

\* what cancel_execution returns: the id of the record, 0 for None
Cancelled(execution_id, user_id, e) ==
    [op |-> "cancel_execution", args |-> <<execution_id, user_id>>, raised |-> FALSE, val |-> e]

\* cancel_execution without the check of the record's status
cancel_execution_unchecked(execution_id, user_id) ==
    /\ Suspended
    /\ ret' = Cancelled(execution_id, user_id, get_execution(execution_id, user_id))
    /\ IF get_execution(execution_id, user_id) = 0
       THEN UNCHANGED <<executions, clock, statusHist>>
       ELSE /\ executions' = [executions EXCEPT ![execution_id].status = "cancelled",
                                                ![execution_id].completed_at = clock]
            /\ SetStatus(execution_id, "cancelled")
            /\ clock' = clock + 1
    /\ UNCHANGED <<workflows, pc, run, pf>>

\* cancel_execution
cancel_execution(execution_id, user_id) ==
    /\ Suspended
    /\ ret' = Cancelled(execution_id, user_id, get_execution(execution_id, user_id))
    /\ IF get_execution(execution_id, user_id) = 0
       THEN UNCHANGED <<executions, clock, statusHist>>
       ELSE IF executions[execution_id].status \notin {"pending", "running"}
       THEN UNCHANGED <<executions, clock, statusHist>>
       ELSE /\ executions' = [executions EXCEPT ![execution_id].status = "cancelled",
                                                ![execution_id].completed_at = clock]
            /\ SetStatus(execution_id, "cancelled")
            /\ clock' = clock + 1
    /\ UNCHANGED <<workflows, pc, run, pf>>

\* the names the module app/services/workflow_engine.py defines or imports
workflow_engine_names ==
    {"logging", "ABC", "abstractmethod", "datetime", "timezone", "Any", "AsyncSession",
     "Workflow", "WorkflowExecution", "ChatMessage", "llm_client", "logger",
     "BaseNodeExecutor", "StartNodeExecutor", "EndNodeExecutor", "LLMNodeExecutor",
     "RAGNodeExecutor", "AgentNodeExecutor", "ConditionNodeExecutor", "LoopNodeExecutor",
     "HTTPNodeExecutor", "CustomFunctionNodeExecutor", "NODE_EXECUTORS", "WorkflowEngine"}

\* what a call of execute_workflow_stream has done when its generator is
\* exhausted or has raised: the events it yielded and the exception, if any
Streamed(workflow_id, user_id, inputs, events, exc) ==
    [op |-> "execute_workflow_stream", args |-> <<workflow_id, user_id, inputs>>,
     raised |-> exc # "", val |-> 0, exc |-> exc, events |-> events]

\* execute_workflow_stream, driven by its consumer to the end.  Its first
\* statement imports WorkflowEngineStream from app.services.workflow_engine:
\* a name that module does not define makes the generator raise ImportError
\* before it looks the workflow up.  With the name defined, an unknown workflow
\* yields one error event; the statements from the creation of the record on
\* need the class and are reached by no run.
execute_workflow_stream(workflow_id, user_id, inputs) ==
    /\ pc = "idle"
    /\ IF "WorkflowEngineStream" \notin workflow_engine_names
       THEN ret' = Streamed(workflow_id, user_id, inputs, <<>>, "ImportError")
       ELSE /\ get_workflow(workflow_id, user_id) = 0
            /\ ret' = Streamed(workflow_id, user_id, inputs,
                               <<[error |-> "Workflow not found", done |-> TRUE]>>, "")
    /\ UNCHANGED <<workflows, executions, pc, run, clock, statusHist, pf>>

\* ------------------------------------------------------------------------
\* Executors invoked on their own
\* ------------------------------------------------------------------------
MaxVisits == 4

Idle ==
    /\ workflows = <<>>
    /\ executions = <<>>
    /\ pc = "idle"
    /\ run = NoRun
    /\ ret = NoCall
    /\ clock = 1
    /\ statusHist = <<>>

ABC == PyList(<<Str(<<"a">>), Str(<<"b">>), Str(<<"c">>)>>)

LoopArrays == {ABC, PyList(<<Str(<<"a">>)>>), PyList(<<>>), None, Str(<<"a", "b", "c">>),
               PyInt(3), EmptyDict}

LoopStates == {EmptyDict} \cup {Cfg1("n2_index", PyInt(k)) : k \in 0..3}

\* a loop node "n2" reading inputs.items, visited with one and the same state
InitLoop ==
    /\ Idle
    /\ pf \in {[fn |-> "loop", array |-> a, loop_state |-> ls, visits |-> <<>>] :
                  a \in LoopArrays, ls \in LoopStates}

LoopVisit ==
    /\ pf.fn = "loop"
    /\ Len(pf.visits) < MaxVisits
    /\ LET state == MkState(Cfg1("items", pf.array), EmptyDict, pf.loop_state)
           r == LoopNodeExecutor("n2", Cfg1("array_from", Str(<<"inputs", "items">>)), state)
       IN  pf' = [pf EXCEPT !.visits = Append(@, r.val)]
    /\ UNCHANGED <<workflows, executions, pc, run, ret, clock, statusHist>>

SpecLoop == InitLoop /\ [][LoopVisit]_vars

CondValues == {None, Str(<<>>), Str(<<"5">>), Str(<<"7">>), Str(<<" ", "7", " ">>),
               Str(<<"a", "b", "c">>), Str(<<"n", "a", "n">>), PyInt(3), PyInt(7),
               BigInt, PyBool(TRUE), PyList(<<>>)}

\* a condition node reading inputs.x, which is present or missing
InitCondition ==
    /\ Idle
    /\ pf \in {[fn |-> "condition", present |-> p, value |-> v, operator |-> op,
                compare |-> c, applied |-> FALSE, out |-> Return(None)] :
                  p \in BOOLEAN, v \in CondValues, op \in Operators, c \in CondValues}

ConditionExecute ==
    /\ pf.fn = "condition"
    /\ ~pf.applied
    /\ LET inputs == IF pf.present THEN Cfg1("x", pf.value) ELSE EmptyDict
           state == MkState(inputs, EmptyDict, EmptyDict)
           config == Cfg3("variable", Str(<<"inputs", "x">>), "operator", Str(<<pf.operator>>),
                          "value", pf.compare)
       IN  pf' = [pf EXCEPT !.applied = TRUE, !.out = ConditionNodeExecutor(config, state)]
    /\ UNCHANGED <<workflows, executions, pc, run, ret, clock, statusHist>>

SpecCondition == InitCondition /\ [][ConditionExecute]_vars

\* what a saved edge carries as label and as sourceHandle
EdgeTags == {None, Str(<<>>), Str(<<"true">>), Str(<<"false">>), Str(<<"True">>)}

\* start, condition n2, and the two nodes its edges lead to
BranchNodes ==
    <<Node(1, "start", EmptyDict), Node(2, "condition", EmptyDict),
      Node(3, "llm", EmptyDict), Node(4, "end", EmptyDict)>>

\* the edge lists: start -> condition, then one edge condition -> n3, or two
\* edges condition -> n3 and condition -> n4, tagged in every way
BranchEdges ==
    {<<PlainEdge("n1", "n2"), Edge("n2", "n3", l, h)>> : l \in EdgeTags, h \in EdgeTags}
    \cup {<<PlainEdge("n1", "n2"), Edge("n2", "n3", l[1], h[1]), Edge("n2", "n4", l[2], h[2])>> :
             l \in EdgeTags \X EdgeTags, h \in EdgeTags \X EdgeTags}

\* _get_next_node_for_branch called after the condition node n2
InitBranch ==
    /\ Idle
    /\ pf \in {[fn |-> "branch", edges |-> es, branch |-> b, applied |-> FALSE,
                out |-> Return(0)] : es \in BranchEdges, b \in {"true", "false"}}

BranchApply ==
    /\ pf.fn = "branch"
    /\ ~pf.applied
    /\ pf' = [pf EXCEPT !.applied = TRUE,
                        !.out = get_next_node_for_branch("n2", Str(<<pf.branch>>), pf.edges,
                                                         BranchNodes)]
    /\ UNCHANGED <<workflows, executions, pc, run, ret, clock, statusHist>>

SpecBranch == InitBranch /\ [][BranchApply]_vars

\* ------------------------------------------------------------------------
\* Specifications
\* ------------------------------------------------------------------------
WorkflowIds == {1, 2}
ExecutionIds == {1, 2}

Create == pc = "idle" /\ workflows = <<>> /\ \E g \in Graphs : create_workflow(Owner, g)
CreateNamed == pc = "idle" /\ workflows = <<>> /\ \E g \in NamedGraphs : create_workflow(Owner, g)
Start ==
    pc = "idle" /\ \E w \in WorkflowIds, u \in Users, i \in InputChoices :
        execute_workflow_start(w, u, i)
StartOwned == pc = "idle" /\ \E i \in InputChoices : execute_workflow_start(1, Owner, i)
Step == pc = "walk" /\ \E ext \in ExtReplies(run.nodes[run.current].type) : engine_execute_step(ext)
Cancel == \E e \in ExecutionIds, u \in Users : cancel_execution(e, u)

\* one execute_workflow call by the owner on a workflow of any shape
Next ==
    \/ Create
    \/ StartOwned
    \/ execute_workflow_running
    \/ engine_execute_begin
    \/ Step
    \/ execute_workflow_completed
    \/ execute_workflow_failed

Spec == Init /\ [][Next]_vars

\* one execute_workflow call with cancel_execution calls in between
NextCancel ==
    \/ CreateNamed
    \/ Start
    \/ execute_workflow_running
    \/ engine_execute_begin
    \/ Step
    \/ execute_workflow_completed
    \/ execute_workflow_failed
    \/ Cancel

SpecCancel == Init /\ [][NextCancel]_vars

\* the WorkflowUpdate bodies update_workflow is called with: every field is
\* left out (None) or given, a list given empty or not, a flag given false or
\* true.  An enum member is [t |-> "enum", value |-> its value], a Viewport
\* [t |-> "viewport", x, y, zoom].
WorkflowUpdates ==
    [name : {None, Str(<<"New Name">>)},
     description : {None, Str(<<"Updated description">>)},
     nodes : {None, PyList(<<>>), PyList(HttpGraph.nodes)},
     edges : {None, PyList(<<>>), PyList(HttpGraph.edges)},
     viewport : {None, [t |-> "viewport", x |-> 10, y |-> 20, zoom |-> 2]},
     status : {None, [t |-> "enum", value |-> "active"]},
     is_template : {None, PyBool(FALSE), PyBool(TRUE)},
     config : {None, EmptyDict, Cfg1("timeout", PyInt(30))}]

\* one update_workflow call, before or after the workflow is created
Update ==
    pc = "idle" /\ ret.op # "update_workflow" /\
        \E w \in WorkflowIds, u \in Users, data \in WorkflowUpdates : update_workflow(w, u, data)

NextUpdate ==
    \/ CreateNamed
    \/ Update

SpecUpdate == Init /\ [][NextUpdate]_vars

Stream ==
    pc = "idle" /\ workflows # <<>> /\ \E w \in WorkflowIds, u \in Users, i \in InputChoices :
        execute_workflow_stream(w, u, i)

\* batch runs and streaming runs of the stored workflow
NextStream ==
    \/ CreateNamed
    \/ StartOwned
    \/ execute_workflow_running
    \/ engine_execute_begin
    \/ Step
    \/ execute_workflow_completed
    \/ execute_workflow_failed
    \/ Stream

SpecStream == Init /\ [][NextStream]_vars

\* ------------------------------------------------------------------------
\* Properties
\* ------------------------------------------------------------------------
\* execute_workflow has returned the record of a run
Returned == pc = "idle" /\ executions # <<>>
StoredGraph == Graph(workflows[1].nodes, workflows[1].edges)
NodeIdSet(nodes) == {nodes[i].id : i \in DOMAIN nodes}
TypeOf(nodes, id) == nodes[NodeById(nodes, id)].type

\* the http call of the run of start -> http -> end failed
HttpCallFailed ==
    /\ Returned
    /\ StoredGraph = HttpGraph
    /\ HasKey(executions[1].outputs, "n2")
    /\ HasKey(executions[1].outputs.v["n2"], "error")

\* C1: start -> http -> end with a failing http call: the end node is executed,
\* the record ends completed, and the record's logs hold exactly one failed
\* NodeLog, the http node's.
C1_HttpFailureLoggedFailed ==
    HttpCallFailed =>
        /\ "n3" \in Range(run.executed)
        /\ executions[1].status = "completed"
        /\ \E i \in DOMAIN executions[1].logs :
              /\ FailedLogs(executions[1].logs) = {i}
              /\ executions[1].logs[i].node_id = "n2"

IsPrefix(s, t) == Len(s) <= Len(t) /\ SubSeq(t, 1, Len(s)) = s

\* C2: the status of a record created by execute_workflow takes the values
\* pending, running, then exactly one of completed or failed, none skipped and
\* none revisited, and is terminal when execute_workflow returns.
C2_StatusLifecycle ==
    \A e \in DOMAIN executions :
        /\ \E final \in {"completed", "failed"} :
              IsPrefix(statusHist[e], <<"pending", "running", final>>)
        /\ executions[e].status = statusHist[e][Len(statusHist[e])]
        /\ (pc = "idle" /\ run.eid = e) =>
              /\ Len(statusHist[e]) = 3
              /\ executions[e].status \in {"completed", "failed"}

C2_Witness ==
    /\ Returned
    /\ statusHist[1] = <<"pending", "running", "failed">>

\* C3: whatever the interleaving of execute_workflow and cancel_execution, the
\* terminal status of a record is set once: a record that is cancelled,
\* completed or failed never changes status again.
C3_TerminalSetOnce ==
    \A e \in DOMAIN executions :
        Cardinality({i \in DOMAIN statusHist[e] : statusHist[e][i] \in Terminal}) <= 1

\* the step is a call of cancel_execution
CancelStep == ret'.op = "cancel_execution" /\ UNCHANGED <<pc, run, workflows>>

C5_StatusFollowsWalker ==
    Returned =>
        /\ executions[1].status \in {"completed", "failed"}
        /\ executions[1].status = "completed" <=> run.exc = ""
        /\ executions[1].status = "failed" =>
              (run.exc # "" /\ executions[1].error_message = Str(<<run.exc>>))
        /\ executions[1].status = "completed" => executions[1].error_message = None

C5_Witness ==
    /\ Returned
    /\ executions[1].status = "completed"
    /\ FailedLogs(run.logs) # {}

NoLoopNode(nodes) == \A i \in DOMAIN nodes : nodes[i].type # "loop"
NoDuplicates(s) == \A i, j \in DOMAIN s : s[i] = s[j] => i = j
\* how many iterations the while loop of the walker can still make
Remaining ==
    Cardinality(NodeIdSet(run.nodes) \ run.visited) + (IF pc = "walk" THEN 1 ELSE 0)

\* C6: in a graph without loop node, cycles or not, the walk terminates (every
\* iteration of the loop is able to run and lowers Remaining), no node is
\* executed twice, and there are at most as many NodeLogs as distinct node ids.
C6_NoLoopWalkTerminates ==
    /\ [](NoLoopNode(run.nodes) =>
            /\ NoDuplicates(run.executed)
            /\ Len(run.logs) <= Cardinality(NodeIdSet(run.nodes))
            /\ pc = "walk" => (run.steps < MaxSteps /\ run.current \in DOMAIN run.nodes))
    /\ [][(NoLoopNode(run.nodes) /\ pc = "walk") => Remaining' < Remaining]_vars

\* the walk came back to a node it had executed and stopped there
C6_Witness ==
    /\ NoLoopNode(run.nodes)
    /\ pc = "returned"
    /\ run.current # 0
    /\ run.nodes[run.current].id \in run.visited
    /\ Len(run.executed) > 1

\* C7: a loop node over [a, b, c] visited again and again with the same
\* loop_state returns a, then b, then c, each with done false, and then done
\* true.
C7_LoopAdvances ==
    (pf.fn = "loop" /\ pf.array = ABC /\ pf.loop_state = EmptyDict) =>
        \A k \in DOMAIN pf.visits :
            IF k <= 3
            THEN /\ pf.visits[k].v["output"] = ABC.v[k]
                 /\ pf.visits[k].v["done"] = PyBool(FALSE)
            ELSE pf.visits[k].v["done"] = PyBool(TRUE)

\* C8: a loop node whose array_from resolves to no list returns on its first
\* visit done true, count 0 and an empty output.
C8_NonListLoopDone ==
    (pf.fn = "loop" /\ pf.array.t # "list" /\ pf.visits # <<>>) =>
        /\ HasKey(pf.visits[1], "done") /\ pf.visits[1].v["done"] = PyBool(TRUE)
        /\ pf.visits[1].v["count"] = PyInt(0)
        /\ pf.visits[1].v["output"] = PyList(<<>>)

\* float(x) gives a number
Numeric(x) == PyFloat(x).ok /\ ~PyFloat(x).nan
ConditionValue == IF pf.present THEN pf.value ELSE None

\* C9: greater_than and less_than never raise, whatever the two values; when a
\* side is no number the output is false and the branch "false"; and for every
\* operator the branch is "true" exactly when the output is true.
C9_ComparisonNeverRaises ==
    (pf.fn = "condition" /\ pf.applied) =>
        /\ pf.operator \in {"greater_than", "less_than"} =>
              /\ ~pf.out.raised
              /\ (~Numeric(ConditionValue) \/ ~Numeric(pf.compare)) =>
                    /\ pf.out.val.v["output"] = PyBool(FALSE)
                    /\ pf.out.val.v["branch"] = Str(<<"false">>)
        /\ ~pf.out.raised =>
              (pf.out.val.v["branch"] = Str(<<"true">>)
                  <=> pf.out.val.v["output"] = PyBool(TRUE))

OutEdges(edges, id) == {i \in DOMAIN edges : edges[i].source = id}
\* one start, one end, no node with two outgoing edges, ids distinct
StraightLine(nodes, edges) ==
    /\ Cardinality({i \in DOMAIN nodes : nodes[i].type = "start"}) = 1
    /\ Cardinality({i \in DOMAIN nodes : nodes[i].type = "end"}) = 1
    /\ NoDuplicates([i \in DOMAIN nodes |-> nodes[i].id])
    /\ \A i \in DOMAIN nodes : Cardinality(OutEdges(edges, nodes[i].id)) <= 1

\* the run went start -> ... -> llm -> end and the llm call answered
LlmThenEnd ==
    /\ Returned
    /\ executions[1].status = "completed"
    /\ StraightLine(run.nodes, run.edges)
    /\ Len(run.executed) >= 3
    /\ TypeOf(run.nodes, run.executed[1]) = "start"
    /\ TypeOf(run.nodes, run.executed[Len(run.executed) - 1]) = "llm"
    /\ TypeOf(run.nodes, run.executed[Len(run.executed)]) = "end"
    /\ ~HasKey(executions[1].outputs.v[run.executed[Len(run.executed) - 1]], "error")

\* C10: after a straight-line run start -> ... -> llm -> end,
\* outputs[end_id]["output"] is the text the llm node generated.
C10_EndOutputIsLlmText ==
    LlmThenEnd =>
        executions[1].outputs.v[run.executed[Len(run.executed)]].v["output"] = LLM_TEXT

\* C11: in every state of a batch run the logs hold exactly one NodeLog per
\* node the walker has executed so far, in execution order: the i-th entry
\* names the i-th node executed, whatever the kinds of the nodes.
C11_OneLogPerExecution ==
    /\ Len(run.logs) = Len(run.executed)
    /\ \A i \in DOMAIN run.logs : run.logs[i].node_id = run.executed[i]

\* a streaming run of the workflow and inputs of the batch run has ended
StreamedAfterBatch ==
    /\ Returned
    /\ executions[run.eid].status = "completed"
    /\ ret.op = "execute_workflow_stream"
    /\ ret.args = <<run.workflow_id, run.user_id, run.inputs>>

\* C12: the same graph and inputs run through the batch walker and through
\* the streaming walker end with identical node_outputs and total_tokens: the
\* streaming run leaves a record whose outputs and total_tokens are those of
\* the batch run's record.
C12_StreamingParity ==
    StreamedAfterBatch =>
        /\ ~ret.raised
        /\ \E e \in DOMAIN executions :
              /\ e # run.eid
              /\ executions[e].outputs = executions[run.eid].outputs
              /\ executions[e].total_tokens = executions[run.eid].total_tokens

\* C13: the events of execute_workflow_stream end with exactly one event
\* carrying done true, which is the last one: it carries an error exactly on
\* a walker-level error; every earlier event has done false.
C13_StreamEndsWithDone ==
    ret.op = "execute_workflow_stream" =>
        /\ ~ret.raised
        /\ ret.events # <<>>
        /\ \A i \in DOMAIN ret.events : ret.events[i].done <=> i = Len(ret.events)

\* C14: execute_workflow on a workflow id that does not exist or belongs to
\* another user raises before any record is created: the call that raised
\* left the executions table as it was, and every record that is created is
\* for a workflow its user owns.
C14_NotFoundCreatesNothing ==
    [][/\ (ret' # ret /\ ret'.op = "execute_workflow" /\ ret'.raised) =>
             /\ get_workflow(ret'.args[1], ret'.args[2]) = 0
             /\ executions' = executions
       /\ Len(executions') > Len(executions) =>
             get_workflow(executions'[Len(executions')].workflow_id,
                          executions'[Len(executions')].user_id) # 0]_vars

\* a call for another user's workflow raised after a run had left its record
C14_Witness ==
    /\ ret.op = "execute_workflow"
    /\ ret.raised
    /\ ret.args = <<1, "u2">>
    /\ workflows # <<>>
    /\ executions # <<>>

NoStartNode(nodes) == \A i \in DOMAIN nodes : nodes[i].type # "start"

\* C15: the run of a workflow that has nodes but no start node ends at once,
\* no node executed, with the record failed and its error message set.
C15_NoStartNodeFails ==
    (Returned /\ run.nodes # <<>> /\ NoStartNode(run.nodes)) =>
        /\ run.executed = <<>>
        /\ executions[1].status = "failed"
        /\ executions[1].error_message # None

\* C15 as amended: a workflow without a node of type start is walked from its
\* first node in declaration order, and the "No start node" error is never
\* raised; a workflow without any node ends completed with empty outputs.
C15_NoStartNodeStartsAtFirst ==
    NoStartNode(run.nodes) =>
        /\ run.exc # "No start node found in workflow"
        /\ run.executed # <<>> => run.executed[1] = run.nodes[1].id
        /\ (Returned /\ run.nodes # <<>>) => run.executed # <<>>
        /\ (Returned /\ run.nodes = <<>>) =>
              /\ executions[1].status = "completed"
              /\ executions[1].outputs = EmptyDict
              /\ executions[1].logs = <<>>

\* llm -> end without a start node ran both nodes
C15_Witness ==
    /\ Returned
    /\ NoStartNode(run.nodes)
    /\ Len(run.executed) = 2
    /\ executions[1].status = "completed"

\* the value update_workflow must leave in a field: the one given, the stored
\* one when none is given
Expect(given, stored) == IF given = None THEN stored ELSE given

C17_FailedRunKeepsLogs ==
    (Returned /\ executions[1].status = "failed") => executions[1].logs = run.logs

\* C18: after a run that executed at least one node the record's
\* current_node_id is the id of the last node the walker executed.
C18_CurrentNodeIsLast ==
    (Returned /\ run.executed # <<>>) =>
        executions[1].current_node_id = Str(<<run.executed[Len(run.executed)]>>)

\* the executors that let the exception of their external call escape
RaisingTypes == {"llm", "rag", "agent"}

\* this step executed a node whose executor raised
ExecutorRaised ==
    /\ pc = "walk"
    /\ run'.executed # run.executed
    /\ run.nodes[run.current].type \in RaisingTypes
    /\ HasKey(run'.state.v["node_outputs"].v[run.nodes[run.current].id], "error")

\* the first edge of the list that leaves the node
FirstOutEdge(edges, id) == CHOOSE i \in OutEdges(edges, id) : \A j \in OutEdges(edges, id) : i <= j

\* C19: when a node's executor raises, the walker appends one NodeLog with
\* status failed and the error text, stores {"output": None, "error": text} as
\* the node's entry of node_outputs, and goes on to the target of the node's
\* first outgoing edge as after a success; the walk is not aborted.
C19_FailedNodeContinues ==
    [][ExecutorRaised =>
        LET node == run.nodes[run.current]
            log == run'.logs[Len(run'.logs)]
        IN  /\ Len(run'.logs) = Len(run.logs) + 1
            /\ SubSeq(run'.logs, 1, Len(run.logs)) = run.logs
            /\ log.node_id = node.id
            /\ log.status = "failed"
            /\ run'.state.v["node_outputs"].v[node.id]
                  = Dict(<<"output", "error">>, [output |-> None, error |-> Str(<<log.error>>)])
            /\ pc' # "raised"
            /\ run'.exc = ""
            /\ IF OutEdges(run.edges, node.id) = {}
                  \/ NodeById(run.nodes, run.edges[FirstOutEdge(run.edges, node.id)].target) = 0
               THEN pc' = "returned"
               ELSE /\ pc' = "walk"
                    /\ run'.current
                          = NodeById(run.nodes, run.edges[FirstOutEdge(run.edges, node.id)].target)]_vars

\* a run whose llm or rag call raised went on to later nodes and completed
C19_Witness ==
    /\ Returned
    /\ executions[1].status = "completed"
    /\ \E i \in FailedLogs(run.logs) : i < Len(run.logs)

\* the edge is marked with the tag by its label or by its sourceHandle
Marked(edge, tag) ==
    \/ edge.label.t = "str" /\ Lower(edge.label.v) = <<tag>>
    \/ edge.sourceHandle.t = "str" /\ Lower(edge.sourceHandle.v) = <<tag>>

Unlabelled(edge) == edge.label = None \/ edge.label = Str(<<>>)
Opposite(branch) == IF branch = "true" THEN "false" ELSE "true"

\* C20: after a condition node the walker follows an edge of that node whose
\* label or sourceHandle is the branch, an edge without label counting as a
\* "true" edge; the edge it follows is never marked with the other branch by
\* its label or sourceHandle; looking for the edge does not raise.
C20_BranchEdgeMatches ==
    (pf.fn = "branch" /\ pf.applied) =>
        /\ ~pf.out.raised
        /\ pf.out.val # 0 =>
              \A i \in DOMAIN pf.edges :
                  (pf.edges[i].source = "n2" /\ pf.edges[i].target = BranchNodes[pf.out.val].id) =>
                      /\ Marked(pf.edges[i], pf.branch)
                            \/ (pf.branch = "true" /\ Unlabelled(pf.edges[i]))
                      /\ ~Marked(pf.edges[i], Opposite(pf.branch))

\* C21: once the walker has executed an end node no further node is executed,
\* whatever edges leave the end node and whatever nodes are unvisited: the end
\* node is the last node executed, the walk is over and has not raised.
C21_EndStopsWalk ==
    \A i \in DOMAIN run.executed :
        TypeOf(run.nodes, run.executed[i]) = "end" =>
            /\ i = Len(run.executed)
            /\ pc \in {"returned", "idle"}
            /\ run.exc = ""

\* an end node with an outgoing edge to a node that never ran
C21_Witness ==
    /\ Returned
    /\ run.executed # <<>>
    /\ TypeOf(run.nodes, run.executed[Len(run.executed)]) = "end"
    /\ \E i \in OutEdges(run.edges, run.executed[Len(run.executed)]) :
          /\ NodeById(run.nodes, run.edges[i].target) # 0
          /\ run.edges[i].target \notin run.visited

\* this step executed the node the walker stood on
Executes == pc = "walk" /\ run'.executed # run.executed

\* the entry of node_outputs the end node must hand on: the one of the node
\* output_from names, if there is one, else the one of the node executed last
ExpectedEndOutput(output_from, node_outputs, executed) ==
    IF output_from.t = "str" /\ output_from.v # <<>> /\ HasKey(node_outputs, output_from.v[1])
    THEN node_outputs.v[output_from.v[1]]
    ELSE IF executed # <<>> THEN node_outputs.v[executed[Len(executed)]]
    ELSE None

\* C22: an end node's output is the node_outputs entry of the node its
\* output_from names when that node has produced one, else the entry of the
\* node executed most recently before it, None when no node ran before it.
C22_EndOutputResolution ==
    [][(Executes /\ run.nodes[run.current].type = "end") =>
        run'.state.v["node_outputs"].v[run.nodes[run.current].id]
            = Dict(<<"output">>,
                   [output |-> ExpectedEndOutput(
                                   DictGet(run.nodes[run.current].config, "output_from", None),
                                   run.state.v["node_outputs"], run.executed)])]_vars

\* the end node handed on the start node's entry, named in output_from, though
\* the llm node ran after it
C22_Witness ==
    /\ Returned
    /\ StoredGraph = OutputFromGraph
    /\ run.executed = <<"n1", "n2", "n3">>
    /\ executions[1].outputs.v["n3"].v["output"] = executions[1].outputs.v["n1"]
    /\ executions[1].outputs.v["n1"] # executions[1].outputs.v["n2"]

\* the tokens_used a NodeLog carries, 0 when it carries none
LogTokens(log) == IF "tokens_used" \in DOMAIN log THEN log.tokens_used ELSE 0

RECURSIVE SumLogTokens(_)
SumLogTokens(logs) ==
    IF logs = <<>> THEN 0 ELSE LogTokens(logs[1]) + SumLogTokens(Tail(logs))

\* the tokens_used the results kept in node_outputs report
RECURSIVE SumReported(_, _)
SumReported(node_outputs, keys) ==
    IF keys = <<>> THEN 0
    ELSE DictGet(node_outputs.v[keys[1]], "tokens_used", PyInt(0)).v
         + SumReported(node_outputs, Tail(keys))

\* C23: total_tokens is the sum of the tokens_used every node execution
\* reported, which is the sum of tokens_used over the NodeLogs: in the engine
\* at every point of the walk, and in the execution record the run leaves.
C23_TotalTokensIsSum ==
    /\ run.total_tokens = SumLogTokens(run.logs)
    /\ run.total_tokens = SumReported(run.state.v["node_outputs"],
                                      run.state.v["node_outputs"].k)
    /\ \A e \in DOMAIN executions :
          executions[e].total_tokens = SumLogTokens(executions[e].logs)

\* a finished run in which one node failed and another reported 7 tokens
C23_Witness ==
    /\ pc = "idle"
    /\ executions # <<>>
    /\ executions[1].status = "completed"
    /\ FailedLogs(executions[1].logs) # {}
    /\ executions[1].total_tokens = 7
    /\ \E i \in DOMAIN executions[1].logs : LogTokens(executions[1].logs[i]) = 7

\* the positions of the start nodes in declaration order
StartNodes(nodes) == {i \in DOMAIN nodes : nodes[i].type = "start"}

\* the node a run must begin with: the first start node, else the first node
FirstNode(nodes) ==
    IF StartNodes(nodes) # {}
    THEN nodes[CHOOSE i \in StartNodes(nodes) : \A j \in StartNodes(nodes) : i <= j]
    ELSE nodes[1]

\* C24: the first node a run executes is the first start node in declaration
\* order, or the first declared node when the graph has no start node.
C24_FirstNodeExecuted ==
    run.executed # <<>> => run.executed[1] = FirstNode(run.nodes).id

\* a run that began at the second declared node, the first one not being a
\* start node
C24_Witness ==
    /\ run.executed # <<>>
    /\ Len(run.nodes) >= 2
    /\ run.nodes[1].type # "start"
    /\ run.nodes[2].type = "start"
    /\ run.executed[1] = run.nodes[2].id

\* no edge leaves the node, or the edge the walker would take leads to an id
\* that is not in the graph: the first edge of a plain node, any edge of a
\* condition node
DeadEnd(nodes, edges, node) ==
    \/ OutEdges(edges, node.id) = {}
    \/ /\ node.type # "condition"
       /\ NodeById(nodes, edges[FirstOutEdge(edges, node.id)].target) = 0
    \/ /\ node.type = "condition"
       /\ \A i \in OutEdges(edges, node.id) : NodeById(nodes, edges[i].target) = 0

\* C25: whatever its kind, a node with no outgoing edge, or whose selected
\* edge targets an id that is not in the graph, is the last node executed and
\* the walk returns normally.
C25_DeadEndStopsNormally ==
    [][(Executes /\ DeadEnd(run.nodes, run.edges, run.nodes[run.current])) =>
        pc' = "returned"]_vars

\* C26: the node executed right after a node that is neither an end nor a
\* condition node is the target of that node's first outgoing edge in
\* edge-list order; the targets of its other edges do not follow it.
C26_FirstEdgeFollowed ==
    \A i \in 1..(Len(run.executed) - 1) :
        TypeOf(run.nodes, run.executed[i]) \notin {"end", "condition"} =>
            /\ OutEdges(run.edges, run.executed[i]) # {}
            /\ run.executed[i + 1] = run.edges[FirstOutEdge(run.edges, run.executed[i])].target

\* the start node of the fork has edges to the llm node and to the http node,
\* in this order: the llm node ran and the http node never did
C26_Witness ==
    /\ Returned
    /\ StoredGraph = ForkGraph
    /\ run.executed = <<"n1", "n2", "n4">>
    /\ ~HasKey(executions[1].outputs, "n3")

\* what the walker's next move depends on: the node it stands on, the visited
\* set and the execution state
Configuration == <<run.current, run.visited, run.state>>

\* C27: the batch walk terminates on every finite graph, loop nodes on a
\* cycle included. A loop node calls nothing external, so the step that
\* executes it is a function of the configuration: a walk that terminates
\* never leaves such a step in the configuration it started from.
C27_WalkTerminates ==
    [][(Executes /\ run.nodes[run.current].type = "loop" /\ pc' = "walk") =>
        Configuration' # Configuration]_vars

\* C28: choosing the node after a condition node never raises, whatever
\* label and sourceHandle its stored edges carry (None when the caller gave
\* none, or a string): the step that executes a condition node never ends in
\* an exception of the walker.
C28_ConditionNeverRaises ==
    [][(Executes /\ run.nodes[run.current].type = "condition") =>
        (pc' # "raised" /\ run'.exc = "")]_vars

\* C29: every node type the schema accepts has an executor: no node a run
\* executed has the result of a node whose type is unknown to the engine.
C29_EveryTypeHasExecutor ==
    \A i \in DOMAIN run.executed :
        DictGet(run.state.v["node_outputs"].v[run.executed[i]], "error", None)
            # Str(<<"Unknown node type">>)

\* ------------------------------------------------------------------------
\* Two users working on their workflows
\* ------------------------------------------------------------------------
MaxWorkflows == 2

\* the workflow each user creates: the first user's runs to its end node, the
\* second user's makes the walker raise
GraphOf(u) == IF u = Owner THEN LlmGraph ELSE PlainConditionGraph

\* a WorkflowUpdate giving a new name and nothing else
Rename ==
    [name |-> Str(<<"New Name">>), description |-> None, nodes |-> None, edges |-> None,
     viewport |-> None, status |-> None, is_template |-> None, config |-> None]

CreateBy ==
    pc = "idle" /\ Len(workflows) < MaxWorkflows /\
        \E u \in Users : create_workflow(u, GraphOf(u))

GetWorkflow ==
    /\ pc = "idle"
    /\ \E w \in WorkflowIds, u \in Users :
          ret' = [op |-> "get_workflow", args |-> <<w, u>>, raised |-> FALSE,
                   val |-> get_workflow(w, u)]
    /\ UNCHANGED <<workflows, executions, pc, run, clock, statusHist, pf>>

GetExecution ==
    /\ pc = "idle"
    /\ \E e \in ExecutionIds, u \in Users :
          ret' = [op |-> "get_execution", args |-> <<e, u>>, raised |-> FALSE,
                   val |-> get_execution(e, u)]
    /\ UNCHANGED <<workflows, executions, pc, run, clock, statusHist, pf>>

UpdateBy == pc = "idle" /\ \E w \in WorkflowIds, u \in Users : update_workflow(w, u, Rename)

DeleteBy == \E w \in WorkflowIds, u \in Users : delete_workflow(w, u)

DuplicateBy ==
    Len(workflows) < MaxWorkflows /\ \E w \in WorkflowIds, u \in Users : duplicate_workflow(w, u)

StartBy ==
    pc = "idle" /\ \E w \in WorkflowIds, u \in Users : execute_workflow_start(w, u, FullInputs)

NextOwners ==
    \/ CreateBy
    \/ GetWorkflow
    \/ GetExecution
    \/ UpdateBy
    \/ DeleteBy
    \/ DuplicateBy
    \/ StartBy
    \/ execute_workflow_running
    \/ engine_execute_begin
    \/ Step
    \/ execute_workflow_completed
    \/ execute_workflow_failed
    \/ Cancel

SpecOwners == Init /\ [][NextOwners]_vars

\* the user a recorded call was made by
Caller(r) == IF r.op = "create_workflow" THEN r.args[1] ELSE r.args[2]

\* this step is a call of the service, recorded in ret
Called == ret'.op # ret.op \/ ret' # ret

\* the recorded call names a workflow, or an execution, that exists and
\* belongs to a user other than the caller
OnForeignWorkflow(r) ==
    /\ r.op \in {"get_workflow", "update_workflow", "delete_workflow", "duplicate_workflow",
                 "execute_workflow"}
    /\ r.args[1] \in DOMAIN workflows
    /\ workflows[r.args[1]].user_id \in Users \ {r.args[2]}

OnForeignExecution(r) ==
    /\ r.op \in {"get_execution", "cancel_execution"}
    /\ r.args[1] \in DOMAIN executions
    /\ executions[r.args[1]].user_id \in Users \ {r.args[2]}

\* the call answered as if the row did not exist
NotFound(r) ==
    CASE r.op = "execute_workflow" -> r.raised
      [] r.op = "delete_workflow" -> r.val = FALSE
      [] OTHER -> r.val = 0

\* C30: a call of one user on a workflow or an execution of the other user
\* answers not-found and changes no workflow and no execution; and whenever
\* a workflow or an execution changes or is created, the step is a call, or
\* the run, of the user who owns it.
C30_UsersIsolated ==
    [][/\ (Called /\ (OnForeignWorkflow(ret') \/ OnForeignExecution(ret'))) =>
              (NotFound(ret') /\ workflows' = workflows /\ executions' = executions)
       /\ \A w \in DOMAIN workflows' :
              (w \notin DOMAIN workflows \/ workflows'[w] # workflows[w]) =>
                  /\ Called
                  /\ Caller(ret') = (IF w \in DOMAIN workflows THEN workflows[w].user_id
                                     ELSE workflows'[w].user_id)
       /\ \A e \in DOMAIN executions' :
              (e \notin DOMAIN executions \/ executions'[e] # executions[e]) =>
                  \/ Called /\ Caller(ret') = (IF e \in DOMAIN executions
                                               THEN executions[e].user_id
                                               ELSE executions'[e].user_id)
                  \/ run'.eid = e /\ run'.user_id = executions'[e].user_id]_vars

\* a user asked to delete the other user's workflow, which has an execution,
\* and was told there is no such workflow
C30_Witness ==
    /\ ret.op = "delete_workflow"
    /\ ret.val = FALSE
    /\ ret.args[1] \in DOMAIN workflows
    /\ workflows[ret.args[1]].user_id \in Users \ {ret.args[2]}
    /\ \E e \in DOMAIN executions :
          /\ executions[e].workflow_id = ret.args[1]
          /\ executions[e].user_id = workflows[ret.args[1]].user_id

====
